---- MODULE Spec2Model ----
(***************************************************************************)
(* The event consumer of the Event Analytics Platform: the consume loop of *)
(* cmd/event-consumer (fetch, poison-pill checks, bounded retry of the     *)
(* store insert, dead-letter routing, offset commit) together with the     *)
(* error classifier, the retry policy and the dead-letter producer of      *)
(* internal/messaging.  The source log, the store and the dead-letter log  *)
(* are the environment: every call into them is one step whose outcome is  *)
(* chosen nondeterministically among the outcomes the call can have.       *)
(***************************************************************************)
EXTENDS Integers, Sequences, FiniteSets, TLC

\* ------------------------------------------------------------------ bounds
MaxLog == 1               \* records in the source log
MaxRetriesBound == 2     \* MAX_RETRIES ranges over 0..MaxRetriesBound
MaxRestarts == 1         \* restarts of the worker process
MaxChain == 2            \* errors in a chain of wrapped errors
MaxAttempt == 4          \* ShouldRetry is asked about attempts 0..MaxAttempt
MaxTicks == 3            \* back-off delays and cancellation times, in clock ticks
MaxLongLog == 2          \* records in the log of a run over several records
HugeAttempt == 2000      \* an attempt number at which math.Pow overflows to +Inf

\* ------------------------------------------------------------- error kinds
ErrTransient == 0
ErrPermanent == 1
ErrorKind99 == 99        \* ErrorKind(99): a value of the type outside the two declared

\* ErrorKind.String
String(k) ==
    CASE k = ErrTransient -> "transient"
      [] k = ErrPermanent -> "permanent"
      [] OTHER -> "unknown"

\* An error value, by the attributes Classify inspects:
\*   pe       kind of a ProcessingError found in the chain ("none" if absent,
\*            "other" for a kind that is neither of the declared ones)
\*   net      some error of the chain implements net.Error
\*   eof      the chain holds io.EOF or io.ErrUnexpectedEOF
\*   sys      the chain holds ECONNREFUSED or ECONNRESET
\*   permSub  Error() contains one of the permanent substrings
\*   transSub Error() contains one of the transient substrings
\*   nil      the nil error (no failure)
MkErr(pe, net, eof, sys, permSub, transSub) ==
    [nil |-> FALSE, pe |-> pe, net |-> net, eof |-> eof, sys |-> sys,
     permSub |-> permSub, transSub |-> transSub]

\* pe.Kind of the ProcessingError found: ErrorKind is an int type and Kind an
\* exported field, so a ProcessingError can hold a kind outside the enumeration
PEKind(pe) ==
    CASE pe = "permanent" -> ErrPermanent
      [] pe = "transient" -> ErrTransient
      [] OTHER -> ErrorKind99

NoErr == [MkErr("none", FALSE, FALSE, FALSE, FALSE, FALSE) EXCEPT !.nil = TRUE]

ClassifyNoPermanentRule(err) ==
    IF err.nil THEN ErrTransient
    ELSE IF err.pe # "none"
         THEN PEKind(err.pe)
    ELSE ErrTransient

ClassifyNetworkFirst(err) ==
    IF err.nil THEN ErrTransient
    ELSE IF err.net THEN ErrTransient
    ELSE IF err.eof THEN ErrTransient
    ELSE IF err.sys THEN ErrTransient
    ELSE IF err.pe # "none"
         THEN PEKind(err.pe)
    ELSE IF err.permSub THEN ErrPermanent
    ELSE IF err.transSub THEN ErrTransient
    ELSE ErrTransient

ClassifyTransientSubstringsFirst(err) ==
    IF err.nil THEN ErrTransient
    ELSE IF err.pe # "none"
         THEN PEKind(err.pe)
    ELSE IF err.net THEN ErrTransient
    ELSE IF err.eof THEN ErrTransient
    ELSE IF err.sys THEN ErrTransient
    ELSE IF err.transSub THEN ErrTransient
    ELSE IF err.permSub THEN ErrPermanent
    ELSE ErrTransient

ClassifyDefaultPermanent(err) ==
    IF err.nil THEN ErrPermanent
    ELSE IF err.pe # "none"
         THEN PEKind(err.pe)
    ELSE IF err.net THEN ErrTransient
    ELSE IF err.eof THEN ErrTransient
    ELSE IF err.sys THEN ErrTransient
    ELSE IF err.permSub THEN ErrPermanent
    ELSE IF err.transSub THEN ErrTransient
    ELSE ErrPermanent

\* messaging.Classify
Classify(err) ==
    IF err.nil THEN ErrTransient
    ELSE IF err.pe # "none"
         THEN PEKind(err.pe)
    ELSE IF err.net THEN ErrTransient
    ELSE IF err.eof THEN ErrTransient
    ELSE IF err.sys THEN ErrTransient
    ELSE IF err.permSub THEN ErrPermanent
    ELSE IF err.transSub THEN ErrTransient
    ELSE ErrTransient

\* messaging.NewPermanent("missing required fields", nil)
NewPermanent == MkErr("permanent", FALSE, FALSE, FALSE, FALSE, FALSE)

\* the error json.Unmarshal returns for an undecodable value
ErrUnmarshal == MkErr("none", FALSE, FALSE, FALSE, FALSE, FALSE)

\* errors the store's driver returns to InsertEvent
ErrConnRefused     == MkErr("none", FALSE, FALSE, FALSE, FALSE, TRUE)  \* "connection refused"
ErrCheckConstraint == MkErr("none", FALSE, FALSE, FALSE, TRUE, FALSE)  \* "violates check constraint"
ErrCtxCanceled     == MkErr("none", FALSE, FALSE, FALSE, FALSE, FALSE) \* "context canceled"
ErrUnknown         == MkErr("none", FALSE, FALSE, FALSE, FALSE, FALSE) \* "some obscure error"

\* An error as Go builds it: a chain of errors linked by Unwrap, outermost
\* first.  A link is a *ProcessingError of either kind or of a kind outside the
\* enumeration (ProcessingError{Kind: ErrorKind(99)}), a net.Error, one of the
\* EOF sentinels, one of the errnos ECONNREFUSED / ECONNRESET, or a plain
\* error; perm and trans tell whether the link's own message text holds one of
\* the permanent, one of the transient substrings.  The empty chain is nil.
LinkTypes == {"pe-transient", "pe-permanent", "pe-other", "net", "eof", "sys",
              "plain"}
Links == [type : LinkTypes, perm : BOOLEAN, trans : BOOLEAN]
Chains == UNION {[1..n -> Links] : n \in 0..MaxChain}

IsPE(link) == link.type \in {"pe-transient", "pe-permanent", "pe-other"}

\* errors.As(err, &pe): the first *ProcessingError met walking the chain
FirstPE(chain) ==
    LET found == {i \in 1..Len(chain) : IsPE(chain[i])}
    IN IF found = {} THEN "none"
       ELSE LET first == CHOOSE i \in found : \A j \in found : i <= j
            IN CASE chain[first].type = "pe-permanent" -> "permanent"
                 [] chain[first].type = "pe-transient" -> "transient"
                 [] OTHER -> "other"

\* what Classify's tests see of a chain: errors.As and errors.Is walk all of
\* it, and Error() of the outermost error holds the text of every link
\* (fmt.Errorf with %w, ProcessingError.Error with %v of the cause)
ErrOf(chain) ==
    IF Len(chain) = 0 THEN NoErr
    ELSE MkErr(FirstPE(chain),
               \E i \in 1..Len(chain) : chain[i].type = "net",
               \E i \in 1..Len(chain) : chain[i].type = "eof",
               \E i \in 1..Len(chain) : chain[i].type = "sys",
               \E i \in 1..Len(chain) : chain[i].perm,
               \E i \in 1..Len(chain) : chain[i].trans)

\* -------------------------------------------------------------- retry policy
ShouldRetryNever(rc, kind, attempt) == FALSE

ShouldRetryOffByOne(rc, kind, attempt) ==
    kind = ErrTransient /\ attempt <= rc.MaxRetries

ShouldRetryIgnoresKind(rc, kind, attempt) == attempt < rc.MaxRetries

\* RetryConfig.ShouldRetry
ShouldRetry(rc, kind, attempt) ==
    kind = ErrTransient /\ attempt < rc.MaxRetries

\* Delays are whole ticks of time.Duration.  A RetryConfig holds BaseDelay and
\* MaxDelay in ticks, Multiplier in halves (2 is 1.0, 3 is 1.5, 4 is 2.0) and
\* JitterRatio in hundredths; u is the draw rand.Float64()*2 - 1 of one call,
\* in hundredths (-100..99).  The float64 computation is followed exactly, on
\* fractions: a value is its numerator over the denominator 2^attempt, later
\* over 2^attempt * 10000.
RECURSIVE Pow(_, _)
Pow(b, n) == IF n = 0 THEN 1 ELSE b * Pow(b, n - 1)

\* math.Pow(rc.Multiplier, float64(attempt)) = +Inf
PowOverflows(rc, attempt) == attempt = HugeAttempt /\ rc.Multiplier > 2

\* the exponent that is computed with: at HugeAttempt the power is +Inf, or 1
\* for the multiplier 1.0
Exponent(attempt) == IF attempt = HugeAttempt THEN 0 ELSE attempt

BackoffDelayNoCap(rc, attempt, u) ==
    LET den    == Pow(2, Exponent(attempt))
        capped == rc.BaseDelay * Pow(rc.Multiplier, Exponent(attempt))
        jittered == capped * 10000 + capped * rc.JitterRatio * u
    IN IF jittered < 0 THEN rc.BaseDelay
       ELSE jittered \div (den * 10000)

BackoffDelayResetsAtCap(rc, attempt, u) ==
    LET den    == Pow(2, Exponent(attempt))
        raw    == rc.BaseDelay * Pow(rc.Multiplier, Exponent(attempt))
        capped == IF PowOverflows(rc, attempt) \/ raw > rc.MaxDelay * den
                  THEN rc.BaseDelay * den ELSE raw
        jittered == capped * 10000 + capped * rc.JitterRatio * u
    IN IF jittered < 0 THEN rc.BaseDelay
       ELSE jittered \div (den * 10000)

\* RetryConfig.BackoffDelay
BackoffDelay(rc, attempt, u) ==
    LET den    == Pow(2, Exponent(attempt))
        raw    == rc.BaseDelay * Pow(rc.Multiplier, Exponent(attempt))
        capped == IF PowOverflows(rc, attempt) \/ raw > rc.MaxDelay * den
                  THEN rc.MaxDelay * den ELSE raw
        jittered == capped * 10000 + capped * rc.JitterRatio * u
    IN IF jittered < 0 THEN rc.BaseDelay
       ELSE jittered \div (den * 10000)   \* time.Duration(delay) truncates

SleepUninterruptible(d, c) == {[err |-> FALSE, elapsed |-> d]}

\* RetryConfig.Sleep, by the clock: the timer is set to d ticks and ctx is
\* cancelled at tick c after entry (0: already cancelled on entry; above d: not
\* before the timer).  The select takes the one case that is ready, either
\* case when both are ready on entry or become ready in the same tick, and
\* otherwise wakes at the first of the two events.  The result is the error
\* returned (TRUE: ctx.Err()) and the ticks spent in the call.
SleepOutcomes(d, c) ==
    LET cancelledNow == [err |-> TRUE,  elapsed |-> c]
        timerFired   == [err |-> FALSE, elapsed |-> d]
    IN IF c < d THEN {cancelledNow}
       ELSE IF d < c THEN {timerFired}
       ELSE {cancelledNow, timerFired}

\* ------------------------------------------------------------ record values
\* A record value, by what decoding looks at: whether the bytes are valid
\* JSON at all, and for event_id / event_type whether the member is absent,
\* of a non-string type, or a string (possibly empty).
Absent == "<absent>"
WrongType == "<number>"
MkValue(json, id, type) == [json |-> json, event_id |-> id, event_type |-> type]

ValBadJSON   == MkValue(FALSE, Absent, Absent)      \* {not-valid-json!!!}
ValNumericID == MkValue(TRUE, WrongType, "click")   \* {"event_id":7,"event_type":"click"}
ValEmptyID   == MkValue(TRUE, "", "click")          \* {"event_id":"","event_type":"click","payload":{}}
ValNoType    == MkValue(TRUE, "e1", Absent)         \* {"event_id":"e1","payload":{}}
ValE1        == MkValue(TRUE, "e1", "click")
ValE2        == MkValue(TRUE, "e2", "view")

Values == {ValBadJSON, ValNumericID, ValEmptyID, ValNoType, ValE1, ValE2}

ZeroEvent == [EventID |-> "", EventType |-> ""]

\* json.Unmarshal(msg.Value, &evt): the error, and the decoded event
UnmarshalErr(v) ==
    IF ~v.json \/ v.event_id = WrongType \/ v.event_type = WrongType
    THEN ErrUnmarshal ELSE NoErr

Unmarshal(v) ==
    [EventID   |-> IF v.event_id \in {Absent, WrongType} THEN "" ELSE v.event_id,
     EventType |-> IF v.event_type \in {Absent, WrongType} THEN "" ELSE v.event_type]

\* ------------------------------------------------------------------- state
VARIABLES
    log,              \* the source log: sequence of [Key, Value]; offset o is log[o+1]
    retryCfg,         \* messaging.RetryConfig (MaxRetries from MAX_RETRIES)
    readPos,          \* offset the reader returns next
    groupOffset,      \* offset committed for the consumer group (NoOffset: none yet)
    committedOffsets, \* offsets of the records whose CommitMessage took effect
    store,            \* rows of the events table
    dlqLog,           \* messages produced to the dead-letter topic
    cancelled,        \* ctx has been cancelled (SIGINT / SIGTERM)
    pc,               \* where the worker is
    msg,              \* the kafka.Message being (or last) processed
    evt,              \* the decoded event
    attempt,          \* loop variable of the retry loop
    lastErr,          \* lastErr of the retry loop
    dlqArgs,          \* reason, kind, retries handed to sendToDLQ
    trace,            \* calls made for msg in this pass, in order
    restarts          \* restarts of the process so far

vars == <<log, retryCfg, readPos, groupOffset, committedOffsets, store, dlqLog,
          cancelled, pc, msg, evt, attempt, lastErr, dlqArgs, trace, restarts>>

Topic == "events"
NoOffset == -1
NoMsg == [Topic |-> "", Partition |-> 0, Offset |-> NoOffset, Key |-> "",
          Value |-> ValBadJSON]
NoArgs == [reason |-> NoErr, kind |-> ErrTransient, retries |-> 0, why |-> ""]

Records == {[Key |-> "user-1", Value |-> v] : v \in Values \ {ValE2}}
             \cup {[Key |-> "user-2", Value |-> ValE2]}

\* the message the reader returns for offset o
MessageAt(o) ==
    [Topic |-> Topic, Partition |-> 0, Offset |-> o,
     Key |-> log[o + 1].Key, Value |-> log[o + 1].Value]

Init ==
    /\ log \in [1..MaxLog -> Records]
    /\ retryCfg \in [MaxRetries : 0..MaxRetriesBound]
    /\ readPos = 0
    /\ groupOffset = NoOffset
    /\ committedOffsets = {}
    /\ store = {}
    /\ dlqLog = <<>>
    /\ cancelled = FALSE
    /\ pc = "fetch"
    /\ msg = NoMsg
    /\ evt = ZeroEvent
    /\ attempt = 0
    /\ lastErr = NoErr
    /\ dlqArgs = NoArgs
    /\ trace = <<>>
    /\ restarts = 0

\* ------------------------------------------------------- dead-letter writer
DLQMessageClassifiesReason(original, reason, kind, retries) ==
    [original_topic     |-> original.Topic,
     original_partition |-> original.Partition,
     original_offset    |-> original.Offset,
     original_key       |-> original.Key,
     original_value     |-> original.Value,
     error_message      |-> reason,
     error_kind         |-> String(Classify(reason)),
     retries            |-> retries]

\* the DLQMessage envelope Send builds (FailedAt, a wall-clock reading, left out)
DLQMessage(original, reason, kind, retries) ==
    [original_topic     |-> original.Topic,
     original_partition |-> original.Partition,
     original_offset    |-> original.Offset,
     original_key       |-> original.Key,
     original_value     |-> original.Value,
     error_message      |-> reason,
     error_kind         |-> String(kind),
     retries            |-> retries]

\* json.Marshal(envelope) fails exactly when the json.RawMessage member
\* original_value is not valid JSON (encoding/json validates a Marshaler's output)
MarshalFails(envelope) == ~envelope.original_value.json

DLQKafkaMessageHeaderFromReason(original, reason, kind, retries) ==
    [Key     |-> original.Key,
     Value   |-> DLQMessage(original, reason, kind, retries),
     Headers |-> [dlq_reason |-> String(Classify(reason)),
                  original_topic |-> original.Topic]]

\* the kafka.Message Send hands to the writer
DLQKafkaMessage(original, reason, kind, retries) ==
    [Key     |-> original.Key,
     Value   |-> DLQMessage(original, reason, kind, retries),
     Headers |-> [dlq_reason |-> String(kind), original_topic |-> original.Topic]]

\* what a call that leaves the process can do: succeed, fail without effect,
\* or take effect although the caller sees an error (lost acknowledgement,
\* cancellation racing the completion)
Outcomes == {[err |-> FALSE, applied |-> TRUE],
             [err |-> TRUE,  applied |-> FALSE],
             [err |-> TRUE,  applied |-> TRUE]}

\* ------------------------------------------------------------------ worker
Called(entry) == trace' = Append(trace, entry)

FetchNewestFirst ==
    /\ pc = "fetch"
    /\ readPos < Len(log)
    /\ msg' = MessageAt(Len(log) - 1 - readPos)
    /\ readPos' = readPos + 1
    /\ pc' = "decode"
    /\ evt' = ZeroEvent
    /\ attempt' = 0
    /\ lastErr' = NoErr
    /\ dlqArgs' = NoArgs
    /\ trace' = <<>>
    /\ UNCHANGED <<log, retryCfg, groupOffset, committedOffsets, store, dlqLog,
                   cancelled, restarts>>

FetchAutoCommits ==
    /\ pc = "fetch"
    /\ readPos < Len(log)
    /\ msg' = MessageAt(readPos)
    /\ readPos' = readPos + 1
    /\ committedOffsets' = committedOffsets \cup {readPos}
    /\ groupOffset' = readPos + 1
    /\ pc' = "decode"
    /\ evt' = ZeroEvent
    /\ attempt' = 0
    /\ lastErr' = NoErr
    /\ dlqArgs' = NoArgs
    /\ trace' = <<>>
    /\ UNCHANGED <<log, retryCfg, store, dlqLog, cancelled, restarts>>

\* consumer.FetchMessage returns the next record; processMessage starts on it
Fetch ==
    /\ pc = "fetch"
    /\ readPos < Len(log)
    /\ msg' = MessageAt(readPos)
    /\ readPos' = readPos + 1
    /\ pc' = "decode"
    /\ evt' = ZeroEvent
    /\ attempt' = 0
    /\ lastErr' = NoErr
    /\ dlqArgs' = NoArgs
    /\ trace' = <<>>
    /\ UNCHANGED <<log, retryCfg, groupOffset, committedOffsets, store, dlqLog,
                   cancelled, restarts>>

FetchErrorExits ==
    /\ pc = "fetch"
    /\ ~cancelled
    /\ pc' = "exited"
    /\ UNCHANGED <<log, retryCfg, readPos, groupOffset, committedOffsets, store,
                   dlqLog, cancelled, msg, evt, attempt, lastErr, dlqArgs, trace,
                   restarts>>

\* FetchMessage fails while ctx is live: log and fetch again
FetchError ==
    /\ pc = "fetch"
    /\ ~cancelled
    /\ UNCHANGED vars

FetchShutdownLoopsOn ==
    /\ pc = "fetch"
    /\ cancelled
    /\ UNCHANGED vars

\* FetchMessage fails and ctx is cancelled: the consume loop returns and main's
\* locals go out of scope
FetchShutdown ==
    /\ pc = "fetch"
    /\ cancelled
    /\ pc' = "exited"
    /\ msg' = NoMsg
    /\ evt' = ZeroEvent
    /\ attempt' = 0
    /\ lastErr' = NoErr
    /\ dlqArgs' = NoArgs
    /\ trace' = <<>>
    /\ UNCHANGED <<log, retryCfg, readPos, groupOffset, committedOffsets, store,
                   dlqLog, cancelled, restarts>>

\* the two calls sendToDLQ(...); commitAndLog(...) of a routing branch
RouteToDLQ(reason, kind, retries, why) ==
    /\ dlqArgs' = [reason |-> reason, kind |-> kind, retries |-> retries, why |-> why]
    /\ pc' = "send"

DecodeOnlyChecksID ==
    /\ pc = "decode"
    /\ IF ~UnmarshalErr(msg.Value).nil
       THEN /\ RouteToDLQ(UnmarshalErr(msg.Value), ErrPermanent, 0, "poison-pill")
            /\ UNCHANGED <<evt, attempt>>
       ELSE /\ evt' = Unmarshal(msg.Value)
            /\ IF evt'.EventID = ""
               THEN /\ RouteToDLQ(NewPermanent, ErrPermanent, 0,
                                  "poison-pill-missing-fields")
                    /\ UNCHANGED attempt
               ELSE /\ attempt' = 0
                    /\ pc' = "insert"
                    /\ UNCHANGED dlqArgs
    /\ UNCHANGED <<log, retryCfg, readPos, groupOffset, committedOffsets, store,
                   dlqLog, cancelled, msg, lastErr, trace, restarts>>

DecodeCountsAttempt ==
    /\ pc = "decode"
    /\ IF ~UnmarshalErr(msg.Value).nil
       THEN /\ RouteToDLQ(UnmarshalErr(msg.Value), ErrPermanent, attempt + 1,
                          "poison-pill")
            /\ UNCHANGED <<evt, attempt>>
       ELSE /\ evt' = Unmarshal(msg.Value)
            /\ IF evt'.EventID = "" \/ evt'.EventType = ""
               THEN /\ RouteToDLQ(NewPermanent, ErrPermanent, attempt + 1,
                                  "poison-pill-missing-fields")
                    /\ UNCHANGED attempt
               ELSE /\ attempt' = 0
                    /\ pc' = "insert"
                    /\ UNCHANGED dlqArgs
    /\ UNCHANGED <<log, retryCfg, readPos, groupOffset, committedOffsets, store,
                   dlqLog, cancelled, msg, lastErr, trace, restarts>>

DecodeBlocksOnPoison ==
    /\ pc = "decode"
    /\ IF \/ ~UnmarshalErr(msg.Value).nil
          \/ Unmarshal(msg.Value).EventID = ""
          \/ Unmarshal(msg.Value).EventType = ""
       THEN UNCHANGED <<evt, attempt, dlqArgs, pc>>
       ELSE /\ evt' = Unmarshal(msg.Value)
            /\ attempt' = 0
            /\ pc' = "insert"
            /\ UNCHANGED dlqArgs
    /\ UNCHANGED <<log, retryCfg, readPos, groupOffset, committedOffsets, store,
                   dlqLog, cancelled, msg, lastErr, trace, restarts>>

\* processMessage, the poison-pill checks: unmarshal, then required fields
Decode ==
    /\ pc = "decode"
    /\ IF ~UnmarshalErr(msg.Value).nil
       THEN /\ RouteToDLQ(UnmarshalErr(msg.Value), ErrPermanent, 0, "poison-pill")
            /\ UNCHANGED <<evt, attempt>>
       ELSE /\ evt' = Unmarshal(msg.Value)
            /\ IF evt'.EventID = "" \/ evt'.EventType = ""
               THEN /\ RouteToDLQ(NewPermanent, ErrPermanent, 0,
                                  "poison-pill-missing-fields")
                    /\ UNCHANGED attempt
               ELSE /\ attempt' = 0
                    /\ pc' = "insert"
                    /\ UNCHANGED dlqArgs
    /\ UNCHANGED <<log, retryCfg, readPos, groupOffset, committedOffsets, store,
                   dlqLog, cancelled, msg, lastErr, trace, restarts>>

InsertRowOverwrites(rows, id, type) ==
    {r \in rows : r.event_id # id} \cup {[event_id |-> id, event_type |-> type]}

\* db.InsertEvent: INSERT ... ON CONFLICT (event_id) DO NOTHING
InsertRow(rows, id, type) ==
    IF \E r \in rows : r.event_id = id
    THEN rows
    ELSE rows \cup {[event_id |-> id, event_type |-> type]}

\* the errors one InsertEvent call can return: with ctx cancelled the driver
\* gives up with the context's error, otherwise the store decides.  InsertEvent
\* wraps the driver's error as "insert event <id>: %w": the chain is kept, and
\* no event_id of Values adds one of the classifier's substrings to the text
InsertErrors ==
    IF cancelled THEN {ErrCtxCanceled}
    ELSE {NoErr, ErrConnRefused, ErrCheckConstraint}

TryInsertCountsFromZero ==
    /\ pc = "insert"
    /\ \E e \in InsertErrors :
         /\ lastErr' = e
         /\ Called([op |-> "insert", attempt |-> attempt, err |-> e])
         /\ IF e.nil
            THEN /\ store' = InsertRow(store, evt.EventID, evt.EventType)
                 /\ pc' = "commit_persisted"
                 /\ UNCHANGED dlqArgs
            ELSE /\ UNCHANGED store
                 /\ IF Classify(e) = ErrPermanent
                    THEN RouteToDLQ(e, Classify(e), attempt, "permanent-error")
                    ELSE IF ~ShouldRetry(retryCfg, Classify(e), attempt)
                    THEN RouteToDLQ(e, Classify(e), attempt, "retries-exhausted")
                    ELSE /\ pc' = "sleep"
                         /\ UNCHANGED dlqArgs
    /\ UNCHANGED <<log, retryCfg, readPos, groupOffset, committedOffsets, dlqLog,
                   cancelled, msg, evt, attempt, restarts>>

\* one turn of the retry loop: the insert, failing with one of errs or
\* succeeding, and the decision on its error
TryInsertWith(errs) ==
    /\ pc = "insert"
    /\ \E e \in errs :
         /\ lastErr' = e
         /\ Called([op |-> "insert", attempt |-> attempt, err |-> e])
         /\ IF e.nil
            THEN /\ store' = InsertRow(store, evt.EventID, evt.EventType)
                 /\ pc' = "commit_persisted"
                 /\ UNCHANGED dlqArgs
            ELSE /\ UNCHANGED store
                 /\ IF Classify(e) = ErrPermanent
                    THEN RouteToDLQ(e, Classify(e), attempt + 1, "permanent-error")
                    ELSE IF ~ShouldRetry(retryCfg, Classify(e), attempt)
                    THEN RouteToDLQ(e, Classify(e), attempt + 1, "retries-exhausted")
                    ELSE /\ pc' = "sleep"
                         /\ UNCHANGED dlqArgs
    /\ UNCHANGED <<log, retryCfg, readPos, groupOffset, committedOffsets, dlqLog,
                   cancelled, msg, evt, attempt, restarts>>

\* one turn of the retry loop against the store
TryInsert == TryInsertWith(InsertErrors)

SleepErrorIgnored ==
    /\ pc = "sleep"
    /\ Called([op |-> "sleep", attempt |-> attempt, err |-> cancelled])
    /\ attempt' = attempt + 1
    /\ pc' = "insert"
    /\ UNCHANGED <<log, retryCfg, readPos, groupOffset, committedOffsets, store,
                   dlqLog, cancelled, msg, evt, lastErr, dlqArgs, restarts>>

\* retryCfg.Sleep: the timer fires, or ctx is done first and processMessage
\* returns without commit
Sleep ==
    /\ pc = "sleep"
    /\ Called([op |-> "sleep", attempt |-> attempt, err |-> cancelled])
    /\ IF cancelled
       THEN /\ pc' = "fetch"
            /\ UNCHANGED attempt
       ELSE /\ attempt' = attempt + 1
            /\ pc' = "insert"
    /\ UNCHANGED <<log, retryCfg, readPos, groupOffset, committedOffsets, store,
                   dlqLog, cancelled, msg, evt, lastErr, dlqArgs, restarts>>

\* sendToDLQ: dlq.Send, whose error is logged and not returned
SendToDLQ ==
    /\ pc = "send"
    /\ LET m == DLQKafkaMessage(msg, dlqArgs.reason, dlqArgs.kind, dlqArgs.retries)
           sent(res, applied) ==
               Called([op |-> "send", envelope |-> m.Value, err |-> res,
                       applied |-> applied])
       IN IF MarshalFails(m.Value)
          THEN /\ sent("marshal", FALSE)
               /\ UNCHANGED dlqLog
          ELSE \E o \in Outcomes :
                 /\ sent(IF o.err THEN "write" ELSE "nil", o.applied)
                 /\ dlqLog' = IF o.applied THEN Append(dlqLog, m) ELSE dlqLog
    /\ pc' = "commit"
    /\ UNCHANGED <<log, retryCfg, readPos, groupOffset, committedOffsets, store,
                   cancelled, msg, evt, attempt, lastErr, dlqArgs, restarts>>

\* consumer.CommitMessage(ctx, msg), with the given outcome
CommitMessage(o) ==
    /\ Called([op |-> "commit", err |-> o.err, applied |-> o.applied])
    /\ IF o.applied
       THEN /\ committedOffsets' = committedOffsets \cup {msg.Offset}
            /\ groupOffset' = msg.Offset + 1
       ELSE UNCHANGED <<committedOffsets, groupOffset>>

CommitAndLogResends ==
    /\ pc = "commit"
    /\ \E o \in Outcomes :
         /\ CommitMessage(o)
         /\ pc' = IF o.err THEN "send" ELSE "fetch"
    /\ UNCHANGED <<log, retryCfg, readPos, store, dlqLog, cancelled, msg, evt,
                   attempt, lastErr, dlqArgs, restarts>>

CommitAndLogSkipsCommit ==
    /\ pc = "commit"
    /\ pc' = "fetch"
    /\ UNCHANGED <<log, retryCfg, readPos, groupOffset, committedOffsets, store,
                   dlqLog, cancelled, msg, evt, attempt, lastErr, dlqArgs, trace,
                   restarts>>

\* commitAndLog, called after sendToDLQ on every routing branch
CommitAndLog ==
    /\ pc = "commit"
    /\ \E o \in Outcomes : CommitMessage(o)
    /\ pc' = "fetch"
    /\ UNCHANGED <<log, retryCfg, readPos, store, dlqLog, cancelled, msg, evt,
                   attempt, lastErr, dlqArgs, restarts>>

CommitPersistedNoCommit ==
    /\ pc = "commit_persisted"
    /\ pc' = "fetch"
    /\ UNCHANGED <<log, retryCfg, readPos, groupOffset, committedOffsets, store,
                   dlqLog, cancelled, msg, evt, attempt, lastErr, dlqArgs, trace,
                   restarts>>

CommitPersistedFailureToDLQ ==
    /\ pc = "commit_persisted"
    /\ \E o \in Outcomes :
         /\ CommitMessage(o)
         /\ IF o.err
            THEN RouteToDLQ(lastErr, ErrTransient, attempt + 1, "commit-failed")
            ELSE pc' = "fetch" /\ UNCHANGED dlqArgs
    /\ UNCHANGED <<log, retryCfg, readPos, store, dlqLog, cancelled, msg, evt,
                   attempt, lastErr, restarts>>

\* the commit after a successful insert; its error is logged, then return
CommitPersisted ==
    /\ pc = "commit_persisted"
    /\ \E o \in Outcomes : CommitMessage(o)
    /\ pc' = "fetch"
    /\ UNCHANGED <<log, retryCfg, readPos, store, dlqLog, cancelled, msg, evt,
                   attempt, lastErr, dlqArgs, restarts>>

\* SIGINT / SIGTERM: the signal goroutine cancels ctx
Cancel ==
    /\ ~cancelled
    /\ pc # "exited"
    /\ cancelled' = TRUE
    /\ UNCHANGED <<log, retryCfg, readPos, groupOffset, committedOffsets, store,
                   dlqLog, pc, msg, evt, attempt, lastErr, dlqArgs, trace, restarts>>

RestartFromBeginning ==
    /\ pc = "exited"
    /\ restarts < MaxRestarts
    /\ restarts' = restarts + 1
    /\ cancelled' = FALSE
    /\ readPos' = 0
    /\ pc' = "fetch"
    /\ UNCHANGED <<log, retryCfg, groupOffset, committedOffsets, store, dlqLog,
                   msg, evt, attempt, lastErr, dlqArgs, trace>>

\* the process is started again: a new reader of the same group resumes at
\* the group's committed offset, or at the end of the log when there is none
\* (StartOffset: kafka.LastOffset)
Restart ==
    /\ pc = "exited"
    /\ restarts < MaxRestarts
    /\ restarts' = restarts + 1
    /\ cancelled' = FALSE
    /\ readPos' = IF groupOffset = NoOffset THEN Len(log) ELSE groupOffset
    /\ pc' = "fetch"
    /\ UNCHANGED <<log, retryCfg, groupOffset, committedOffsets, store, dlqLog,
                   msg, evt, attempt, lastErr, dlqArgs, trace>>

Next ==
    \/ Fetch
    \/ FetchError
    \/ FetchShutdown
    \/ Decode
    \/ TryInsert
    \/ Sleep
    \/ SendToDLQ
    \/ CommitAndLog
    \/ CommitPersisted
    \/ Cancel
    \/ Restart

Spec == Init /\ [][Next]_vars

\* the steps of the worker goroutine.  Every call it makes returns (the store
\* call within its 5 s deadline, Sleep at the timer or at cancellation, the
\* broker calls by assumption), so the worker does not stop in the middle of
\* the loop; the source log is finite, so FetchMessage under a cancelled ctx
\* cannot go on finding its message channel ready
WorkerStep ==
    \/ Fetch
    \/ FetchShutdown
    \/ Decode
    \/ TryInsert
    \/ Sleep
    \/ SendToDLQ
    \/ CommitAndLog
    \/ CommitPersisted

\* one run of the process, from its start to the return of main (Restart
\* begins another run, with a fresh ctx)
RunNext ==
    \/ Fetch
    \/ FetchError
    \/ FetchShutdown
    \/ Decode
    \/ TryInsert
    \/ Sleep
    \/ SendToDLQ
    \/ CommitAndLog
    \/ CommitPersisted
    \/ Cancel

FairSpec == Init /\ [][RunNext]_vars /\ WF_vars(WorkerStep)

\* one run of the process against a store that fails with errors none of the
\* classifier's rules knows (or, ctx cancelled, with the context's error)
UnknownInsertErrors ==
    IF cancelled THEN {ErrCtxCanceled} ELSE {NoErr, ErrUnknown}

TryInsertUnknown == TryInsertWith(UnknownInsertErrors)

UnknownNext ==
    \/ Fetch
    \/ FetchError
    \/ FetchShutdown
    \/ Decode
    \/ TryInsertUnknown
    \/ Sleep
    \/ SendToDLQ
    \/ CommitAndLog
    \/ CommitPersisted
    \/ Cancel

UnknownSpec == Init /\ [][UnknownNext]_vars

\* one run of the process over a log of several records, each a valid event
\* or one lacking its event_id, with one retry allowed
SeqRecords == {[Key |-> "user-1", Value |-> ValE1],
               [Key |-> "user-2", Value |-> ValE2],
               [Key |-> "user-1", Value |-> ValEmptyID]}

SeqInit ==
    /\ log \in [1..MaxLongLog -> SeqRecords]
    /\ retryCfg = [MaxRetries |-> 1]
    /\ readPos = 0
    /\ groupOffset = NoOffset
    /\ committedOffsets = {}
    /\ store = {}
    /\ dlqLog = <<>>
    /\ cancelled = FALSE
    /\ pc = "fetch"
    /\ msg = NoMsg
    /\ evt = ZeroEvent
    /\ attempt = 0
    /\ lastErr = NoErr
    /\ dlqArgs = NoArgs
    /\ trace = <<>>
    /\ restarts = 0

SeqSpec == SeqInit /\ [][RunNext]_vars

\* a log of several records, each a valid event the store may refuse, with
\* the process started again after it has exited
RedeliveryRecords == {[Key |-> "user-1", Value |-> ValE1]}

RedeliveryInit ==
    /\ log \in [1..MaxLongLog -> RedeliveryRecords]
    /\ retryCfg = [MaxRetries |-> 1]
    /\ readPos = 0
    /\ groupOffset = NoOffset
    /\ committedOffsets = {}
    /\ store = {}
    /\ dlqLog = <<>>
    /\ cancelled = FALSE
    /\ pc = "fetch"
    /\ msg = NoMsg
    /\ evt = ZeroEvent
    /\ attempt = 0
    /\ lastErr = NoErr
    /\ dlqArgs = NoArgs
    /\ trace = <<>>
    /\ restarts = 0

RedeliverySpec == RedeliveryInit /\ [][Next]_vars

\* ------------------------------------------------- the functions on their own
\* Classify, ShouldRetry and InsertEvent called directly, outside the consume
\* loop, on arguments drawn from bounded sets; trace holds the last call with
\* its arguments and its result.  Classify and ShouldRetry keep no state: one
\* call of them is a whole run.
Idle ==
    /\ log = <<>>
    /\ retryCfg = [MaxRetries |-> 0]
    /\ readPos = 0
    /\ groupOffset = NoOffset
    /\ committedOffsets = {}
    /\ store = {}
    /\ dlqLog = <<>>
    /\ cancelled = FALSE
    /\ pc = "idle"
    /\ msg = NoMsg
    /\ evt = ZeroEvent
    /\ attempt = 0
    /\ lastErr = NoErr
    /\ dlqArgs = NoArgs
    /\ trace = <<>>
    /\ restarts = 0

\* kind := Classify(err)
CallClassify ==
    /\ pc = "idle"
    /\ \E chain \in Chains :
         trace' = <<[op |-> "Classify", chain |-> chain,
                     kind |-> Classify(ErrOf(chain))]>>
    /\ pc' = "returned"
    /\ UNCHANGED <<log, retryCfg, readPos, groupOffset, committedOffsets, store,
                   dlqLog, cancelled, msg, evt, attempt, lastErr, dlqArgs,
                   restarts>>

\* rc.ShouldRetry(kind, attempt), for a RetryConfig with any MaxRetries the
\* environment variable can give (negative values included)
CallShouldRetry ==
    /\ pc = "idle"
    /\ \E m \in -1..MaxRetriesBound, k \in {ErrTransient, ErrPermanent},
          a \in 0..MaxAttempt :
         trace' = <<[op |-> "ShouldRetry", MaxRetries |-> m, kind |-> k,
                     attempt |-> a,
                     result |-> ShouldRetry([MaxRetries |-> m], k, a)]>>
    /\ pc' = "returned"
    /\ UNCHANGED <<log, retryCfg, readPos, groupOffset, committedOffsets, store,
                   dlqLog, cancelled, msg, evt, attempt, lastErr, dlqArgs,
                   restarts>>

\* rc.Sleep(ctx, attempt) with BackoffDelay(attempt) = d ticks and ctx
\* cancelled at tick c
CallSleep ==
    /\ pc = "idle"
    /\ \E d \in 0..MaxTicks, c \in 0..MaxTicks + 1 :
         \E r \in SleepOutcomes(d, c) :
            trace' = <<[op |-> "Sleep", d |-> d, c |-> c, err |-> r.err,
                        elapsed |-> r.elapsed]>>
    /\ pc' = "returned"
    /\ UNCHANGED <<log, retryCfg, readPos, groupOffset, committedOffsets, store,
                   dlqLog, cancelled, msg, evt, attempt, lastErr, dlqArgs,
                   restarts>>

\* Record values as bytes: what Values tells of them, and whether the bytes
\* are other than the compact form encoding/json writes (whitespace between
\* tokens, or <, > and & unescaped in a string)
ByteValues ==
    {[json |-> v.json, event_id |-> v.event_id, event_type |-> v.event_type,
      spaced |-> b] : v \in Values, b \in BOOLEAN}

\* the encoder on a json.RawMessage member: the output of MarshalJSON is
\* passed through compact with HTML escaping
Compact(v) == [v EXCEPT !.spaced = FALSE]

\* json.Marshal(envelope), for an envelope it accepts: the JSON text, by the
\* value of each member
MarshalEnvelope(envelope) ==
    [envelope EXCEPT !.original_value = Compact(@)]

\* json.Unmarshal(data, &decoded): every member back into its field, the
\* RawMessage member as the bytes found in the text
UnmarshalEnvelope(data) == data

\* the envelope Send builds for a message, through json.Marshal and back
\* through json.Unmarshal (as TestDLQMessage_Serialization does)
CallRoundTrip ==
    /\ pc = "idle"
    /\ \E v \in ByteValues, reason \in {ErrUnmarshal, NewPermanent, ErrConnRefused},
          kind \in {ErrTransient, ErrPermanent}, retries \in 0..MaxRetriesBound + 1 :
         LET original == [Topic |-> Topic, Partition |-> 0, Offset |-> 0,
                          Key |-> "user-1", Value |-> v]
             envelope == DLQMessage(original, reason, kind, retries)
         IN trace' = <<[op |-> "RoundTrip", envelope |-> envelope,
                        err |-> MarshalFails(envelope),
                        decoded |-> IF MarshalFails(envelope) THEN <<>>
                                    ELSE UnmarshalEnvelope(MarshalEnvelope(envelope))]>>
    /\ pc' = "returned"
    /\ UNCHANGED <<log, retryCfg, readPos, groupOffset, committedOffsets, store,
                   dlqLog, cancelled, msg, evt, attempt, lastErr, dlqArgs,
                   restarts>>

FnNext ==
    \/ CallClassify
    \/ CallShouldRetry
    \/ CallSleep
    \/ CallRoundTrip

FnSpec == Idle /\ [][FnNext]_vars

\* BackoffDelay called twice on one RetryConfig, for two attempt numbers, each
\* call with its own jitter draw
RetryConfigs ==
    {rc \in [BaseDelay : 1..MaxTicks, MaxDelay : 1..3 * MaxTicks,
              Multiplier : {2, 3, 4, 6}, JitterRatio : {0, 30, 100}] :
        rc.MaxDelay >= rc.BaseDelay}
Attempts == 0..MaxAttempt \cup {HugeAttempt}
JitterDraws == {-100, 0, 99}

CallBackoffDelay ==
    /\ pc = "idle"
    /\ \E rc \in RetryConfigs, i, j \in Attempts, ui, uj \in JitterDraws :
         /\ i < j
         /\ trace' = <<[op |-> "BackoffDelay", rc |-> rc, i |-> i, j |-> j,
                        ui |-> ui, uj |-> uj,
                        di |-> BackoffDelay(rc, i, ui),
                        dj |-> BackoffDelay(rc, j, uj)]>>
    /\ pc' = "returned"
    /\ UNCHANGED <<log, retryCfg, readPos, groupOffset, committedOffsets, store,
                   dlqLog, cancelled, msg, evt, attempt, lastErr, dlqArgs,
                   restarts>>

BackoffNext == CallBackoffDelay

BackoffSpec == Idle /\ [][BackoffNext]_vars

\* db.InsertEvent(ctx, eventID, eventType, payload) called by any worker, any
\* number of times, with any identifiers; before is the table as the call
\* found it
EventIDs == {"e1", "e2", "e3"}
EventTypes == {"click", "view"}

CallInsertEvent ==
    /\ pc = "idle"
    /\ \E id \in EventIDs, type \in EventTypes, e \in InsertErrors :
         /\ store' = IF e.nil THEN InsertRow(store, id, type) ELSE store
         /\ trace' = <<[op |-> "InsertEvent", event_id |-> id,
                        event_type |-> type, err |-> e, before |-> store]>>
    /\ UNCHANGED <<log, retryCfg, readPos, groupOffset, committedOffsets, dlqLog,
                   cancelled, pc, msg, evt, attempt, lastErr, dlqArgs, restarts>>

StoreNext == CallInsertEvent

StoreSpec == Idle /\ [][StoreNext]_vars

\* ------------------------------------------------------ the ingestion handler
\* One POST /events request served by HandleEvent.  trace holds the request,
\* the response and the call of Publish; log is the topic the producer writes.
\* A body is told by whether its first JSON value parses, whether bytes follow
\* that value, and the event_id member: a UUID, a string that is no UUID, the
\* empty string, a number, or none.
UUIDs == {"550e8400-e29b-41d4-a716-446655440000"}
RequestBodies ==
    [json : BOOLEAN, trailing : BOOLEAN,
     event_id : UUIDs \cup {"not-a-uuid", "", WrongType, Absent},
     event_type : {"click", Absent}]

\* the whole body is one JSON document
ValidJSON(body) == body.json /\ ~body.trailing

\* json.NewDecoder(r.Body).Decode(&req) fails: the decoder reads the first
\* JSON value of the stream and does not look at what follows it
DecodeErr(body) == ~body.json \/ body.event_id = WrongType

\* req as decoded
EventRequest(body) ==
    [EventID |-> IF body.event_id \in {Absent, WrongType} THEN "" ELSE body.event_id,
     Type    |-> IF body.event_type = Absent THEN "" ELSE body.event_type]

\* uuid.Parse(req.EventID) fails
ParseErr(id) == id \notin UUIDs

Request == trace[1].body
Requested == Len(trace) >= 1 /\ trace[1].op = "request"
Status(code) == \E i \in 1..Len(trace) : trace[i].op = "response" /\ trace[i].status = code
Started   == \E i \in 1..Len(trace) : trace[i].op = "go"
Published == \E i \in 1..Len(trace) : trace[i].op = "Publish"

\* a client sends a request
ReceiveRequest ==
    /\ pc = "idle"
    /\ \E body \in RequestBodies : trace' = <<[op |-> "request", body |-> body]>>
    /\ pc' = "handle"
    /\ UNCHANGED <<log, retryCfg, readPos, groupOffset, committedOffsets, store,
                   dlqLog, cancelled, msg, evt, attempt, lastErr, dlqArgs,
                   restarts>>

\* HandleEvent up to the go statement: decode the body, parse the event_id,
\* answer 400 and return when either fails, start the publishing goroutine
\* otherwise
HandleEvent ==
    /\ pc = "handle"
    /\ IF DecodeErr(Request)
       THEN /\ Called([op |-> "response", status |-> 400])
            /\ pc' = "returned"
       ELSE IF ParseErr(EventRequest(Request).EventID)
       THEN /\ Called([op |-> "response", status |-> 400])
            /\ pc' = "returned"
       ELSE /\ Called([op |-> "go"])
            /\ pc' = "respond"
    /\ UNCHANGED <<log, retryCfg, readPos, groupOffset, committedOffsets, store,
                   dlqLog, cancelled, msg, evt, attempt, lastErr, dlqArgs,
                   restarts>>

\* the rest of HandleEvent: w.WriteHeader(http.StatusAccepted) and the body
WriteAccepted ==
    /\ pc = "respond"
    /\ Called([op |-> "response", status |-> 202])
    /\ pc' = "returned"
    /\ UNCHANGED <<log, retryCfg, readPos, groupOffset, committedOffsets, store,
                   dlqLog, cancelled, msg, evt, attempt, lastErr, dlqArgs,
                   restarts>>

\* the goroutine: producer.Publish(ctx, req.EventID, req) under a timeout of
\* five seconds, its result dropped
Publish ==
    /\ Started /\ ~Published
    /\ \E o \in Outcomes :
         /\ Called([op |-> "Publish", err |-> o.err, applied |-> o.applied])
         /\ log' = IF o.applied
                   THEN Append(log, [Key |-> EventRequest(Request).EventID,
                                     Value |-> MkValue(TRUE, EventRequest(Request).EventID,
                                                       EventRequest(Request).Type)])
                   ELSE log
    /\ UNCHANGED <<retryCfg, readPos, groupOffset, committedOffsets, store,
                   dlqLog, cancelled, pc, msg, evt, attempt, lastErr, dlqArgs,
                   restarts>>

ApiNext ==
    \/ ReceiveRequest
    \/ HandleEvent
    \/ WriteAccepted
    \/ Publish

ApiSpec == Idle /\ [][ApiNext]_vars

\* ---------------------------------------------------------------- properties
\* processMessage has returned for msg and the worker is back in the consume loop
PassDone == pc = "fetch" /\ msg # NoMsg

Inserts == SelectSeq(trace, LAMBDA c : c.op = "insert")
Sends   == SelectSeq(trace, LAMBDA c : c.op = "send")
Commits == SelectSeq(trace, LAMBDA c : c.op = "commit")

DecodeFails   == ~UnmarshalErr(msg.Value).nil
MissingFields == /\ ~DecodeFails
                 /\ \/ Unmarshal(msg.Value).EventID = ""
                    \/ Unmarshal(msg.Value).EventType = ""
StoreAcked    == \E i \in 1..Len(trace) : trace[i].op = "insert" /\ trace[i].err.nil
SendReturnedNil == \E i \in 1..Len(trace) : trace[i].op = "send" /\ trace[i].err = "nil"
SendReturnedErr == \E i \in 1..Len(trace) : trace[i].op = "send" /\ trace[i].err # "nil"
SleepCancelled  == \E i \in 1..Len(trace) : trace[i].op = "sleep" /\ trace[i].err

\* the kinds as section 4.1 of the specification assigns them to an error
SpecPermanent(e) ==
    /\ ~e.nil
    /\ \/ e.pe = "permanent"
       \/ e.pe = "none" /\ ~e.net /\ ~e.eof /\ ~e.sys /\ e.permSub
SpecTransient(e) == ~e.nil /\ ~SpecPermanent(e)

\* the envelope expected in the dead-letter log for msg
Envelope(reason, kindString, retries) ==
    [original_topic     |-> msg.Topic,
     original_partition |-> msg.Partition,
     original_offset    |-> msg.Offset,
     original_key       |-> msg.Key,
     original_value     |-> msg.Value,
     error_message      |-> reason,
     error_kind         |-> kindString,
     retries            |-> retries]
InDLQ(envelope) == \E i \in 1..Len(dlqLog) : dlqLog[i].Value = envelope

\* the pass ended with Send called once with this envelope and then
\* CommitMessage called once, as the last two calls; an accepted envelope is
\* in the dead-letter log and an accepted commit has committed the offset
RoutedThenCommitted(envelope) ==
    /\ Len(Sends) = 1
    /\ Len(Commits) = 1
    /\ Len(trace) >= 2
    /\ trace[Len(trace) - 1].op = "send"
    /\ trace[Len(trace) - 1].envelope = envelope
    /\ trace[Len(trace)].op = "commit"
    /\ trace[Len(trace) - 1].applied => InDLQ(envelope)
    /\ trace[Len(trace)].applied => msg.Offset \in committedOffsets

\* C1: every committed offset belongs to a record whose fate is finalized:
\* its event is in the store or an envelope for it is in the dead-letter log.
C1_Finalized(o) ==
    \/ \E r \in store : r.event_id = Unmarshal(log[o + 1].Value).EventID
    \/ \E i \in 1..Len(dlqLog) : dlqLog[i].Value.original_offset = o
C1_CommitOnlyFinalized == \A o \in committedOffsets : C1_Finalized(o)

\* C2: when Send returned an error for the record, CommitMessage is not
\* called for it in that pass.
C2_NoCommitAfterSendError ==
    \A i, j \in 1..Len(trace) :
        (i < j /\ trace[i].op = "send" /\ trace[i].err # "nil")
            => trace[j].op # "commit"

\* C3: a record whose processing returned is in exactly one of the terminal
\* states Persisted, Dead-lettered, Abandoned-for-shutdown, Stuck-on-DLQ-failure
\* (committed read as: the worker called CommitMessage for it).
C3_Persisted    == StoreAcked /\ Len(Commits) = 1 /\ Len(Sends) = 0
C3_DeadLettered == SendReturnedNil /\ Len(Commits) = 1 /\ ~StoreAcked
C3_Abandoned    == SleepCancelled /\ Len(Commits) = 0 /\ ~StoreAcked /\ Len(Sends) = 0
C3_Stuck        == SendReturnedErr /\ Len(Commits) = 0 /\ ~StoreAcked
C3_FourTerminalStates ==
    PassDone =>
        Cardinality({t \in {"persisted", "dead-lettered", "abandoned", "stuck"} :
            \/ t = "persisted" /\ C3_Persisted
            \/ t = "dead-lettered" /\ C3_DeadLettered
            \/ t = "abandoned" /\ C3_Abandoned
            \/ t = "stuck" /\ C3_Stuck}) = 1

\* C4: CommitMessage is never called twice in one pass, and for a record that
\* was fully processed (store acknowledged, or envelope produced) it has been
\* called exactly once when processMessage returns.
C4_CommitExactlyOnce ==
    /\ Len(Commits) <= 1
    /\ (PassDone /\ (StoreAcked \/ SendReturnedNil)) => Len(Commits) = 1
C4_Witness ==
    PassDone /\ SendReturnedNil /\ Len(Commits) = 1 /\ Len(Inserts) > 0

\* C5: for a record whose value cannot be decoded, an envelope with the raw
\* value, error_kind "permanent" and retries 0 is written to the dead-letter
\* log (unless the write to that log itself fails), and then the offset is
\* committed.
C5_DecodeFailureDeadLettered ==
    (PassDone /\ DecodeFails) =>
        /\ RoutedThenCommitted(Envelope(ErrUnmarshal, "permanent", 0))
        /\ trace[Len(trace) - 1].err # "write"
              => InDLQ(Envelope(ErrUnmarshal, "permanent", 0))

\* C6: for a record that decodes but has an empty event_id or event_type, an
\* envelope with error_kind "permanent" and retries 0 is sent to the
\* dead-letter log, then the offset commit is issued, and the worker is back
\* at the fetch of the next record.
C6_MissingFieldsDeadLettered ==
    (msg # NoMsg /\ MissingFields /\ pc \notin {"decode", "send", "commit"}) =>
        /\ pc = "fetch"
        /\ Len(trace) = 2
        /\ RoutedThenCommitted(Envelope(NewPermanent, "permanent", 0))
        /\ trace[1].err # "marshal"
C6_Witness ==
    /\ PassDone /\ MissingFields /\ Unmarshal(msg.Value).EventID # ""
    /\ InDLQ(Envelope(NewPermanent, "permanent", 0))
    /\ msg.Offset \in committedOffsets

\* C7: a record that fails decoding or lacks event_id or event_type never
\* reaches InsertEvent.
C7_NoInsertForPoisonPill ==
    (msg # NoMsg /\ (DecodeFails \/ MissingFields)) =>
        /\ Len(Inserts) = 0
        /\ pc \notin {"insert", "sleep", "commit_persisted"}
C7_Witness ==
    PassDone /\ MissingFields /\ Unmarshal(msg.Value).EventID # "" /\ Len(Sends) = 1

\* C8: in one pass InsertEvent is called at most MaxRetries + 1 times, never
\* with an attempt index above MaxRetries, and at least once when the record
\* passed validation.
C8_AttemptsBounded ==
    /\ Len(Inserts) <= retryCfg.MaxRetries + 1
    /\ \A i \in 1..Len(Inserts) : Inserts[i].attempt = i - 1
    /\ pc = "insert" => attempt <= retryCfg.MaxRetries
    /\ (PassDone /\ ~DecodeFails /\ ~MissingFields) => Len(Inserts) >= 1
C8_Witness ==
    PassDone /\ retryCfg.MaxRetries >= 2 /\ Len(Inserts) = retryCfg.MaxRetries + 1

\* C9: with MaxRetries = k, when every store attempt fails with a transient
\* error and ctx is not cancelled, exactly k + 1 attempts are made, then the
\* record is sent to the dead-letter log with error_kind "transient" and
\* retries k + 1, then its offset commit is issued.
C9_AllTransient ==
    /\ Len(Inserts) >= 1
    /\ \A i \in 1..Len(Inserts) : SpecTransient(Inserts[i].err)
C10_PermanentAt(i) == trace[i].op = "insert" /\ SpecPermanent(trace[i].err)
C10_PermanentNotRetried ==
    /\ \A i, j \in 1..Len(trace) :
           (i < j /\ C10_PermanentAt(i)) => trace[j].op \notin {"insert", "sleep"}
    /\ (\E i \in 1..Len(trace) : C10_PermanentAt(i)) => pc # "sleep"
    /\ (PassDone /\ \E i \in 1..Len(trace) : C10_PermanentAt(i)) =>
           RoutedThenCommitted(Envelope(Inserts[Len(Inserts)].err, "permanent",
                                        Len(Inserts)))
    /\ (PassDone /\ Len(trace) > 0 /\ C10_PermanentAt(1)) => Len(Inserts) = 1
C10_Witness ==
    /\ PassDone /\ retryCfg.MaxRetries = 2 /\ Len(trace) > 0 /\ C10_PermanentAt(1)
    /\ InDLQ(Envelope(ErrCheckConstraint, "permanent", 1))
    /\ msg.Offset \in committedOffsets

\* C11: when the store fails with transient errors on attempts 0..j-1 and
\* acknowledges attempt j (0 <= j <= MaxRetries) and ctx is not cancelled,
\* exactly j + 1 attempts are made, nothing is sent to the dead-letter log, the
\* event is in the store and the pass ends with the one commit of its offset.
C11_SucceededAt(j) ==
    /\ Len(Inserts) >= j + 1
    /\ Inserts[j + 1].err.nil
    /\ \A i \in 1..j : SpecTransient(Inserts[i].err)
C12_InsertsBefore(i) ==
    Len(SelectSeq(SubSeq(trace, 1, i - 1), LAMBDA c : c.op = "insert"))
C13_CancelledSleepAbandons ==
    /\ (pc = "sleep" /\ cancelled) => (Len(Commits) = 0 /\ Len(Sends) = 0)
    /\ SleepCancelled =>
           /\ pc = "fetch"
           /\ trace[Len(trace)].op = "sleep"
           /\ trace[Len(trace)].err
           /\ \A i \in 1..Len(trace) : trace[i].op \in {"insert", "sleep"}
           /\ \A i \in 1..Len(trace) - 1 : trace[i].op = "sleep" => ~trace[i].err
           /\ Len(Inserts) = trace[Len(trace)].attempt + 1
C13_Witness ==
    /\ PassDone /\ SleepCancelled /\ Len(Inserts) = 2
    /\ msg.Offset \notin committedOffsets
    /\ Len(dlqLog) = 0

\* C15: when CommitMessage fails after the store acknowledged the insert,
\* processMessage returns: the acknowledged insert and the failed commit are
\* the last two calls of the pass, InsertEvent is not called again, nothing is
\* sent to the dead-letter log, and the worker is back at the fetch.
C15_CommitFailed ==
    /\ StoreAcked
    /\ \E i \in 1..Len(trace) : trace[i].op = "commit" /\ trace[i].err
C15_FailedCommitNotRetried ==
    /\ StoreAcked => pc \in {"commit_persisted", "fetch"}
    /\ C15_CommitFailed =>
           /\ pc = "fetch"
           /\ Len(trace) >= 2
           /\ trace[Len(trace)].op = "commit"
           /\ trace[Len(trace) - 1].op = "insert"
           /\ trace[Len(trace) - 1].err.nil
           /\ Len(Commits) = 1
           /\ Len(Sends) = 0
           /\ \A i \in 1..Len(Inserts) - 1 : ~Inserts[i].err.nil
C15_Witness ==
    /\ PassDone /\ C15_CommitFailed /\ Len(Inserts) = 2
    /\ msg.Offset \notin committedOffsets
    /\ \E r \in store : r.event_id = evt.EventID

C17_NoRecordLost ==
    \A o \in 0..Len(log) - 1 :
        (groupOffset # NoOffset /\ o < groupOffset) =>
            \/ \E r \in store : r.event_id = Unmarshal(log[o + 1].Value).EventID
            \/ \E i \in 1..Len(dlqLog) :
                   /\ dlqLog[i].Value.original_offset = o
                   /\ dlqLog[i].Value.original_value = log[o + 1].Value

\* C16: InsertEvent is idempotent on event_id: whatever calls were made, the
\* table holds at most one row per event_id; a call never removes or alters a
\* row; a successful call leaves a row with its event_id; and a call for an
\* event_id already stored leaves the table exactly as it found it.
C16_Repeated ==
    /\ Len(trace) = 1
    /\ trace[1].op = "InsertEvent"
    /\ \E r \in trace[1].before : r.event_id = trace[1].event_id
C16_InsertIdempotent ==
    /\ \A r1, r2 \in store : r1.event_id = r2.event_id => r1 = r2
    /\ Len(trace) = 1 =>
           /\ trace[1].before \subseteq store
           /\ trace[1].err.nil => \E r \in store : r.event_id = trace[1].event_id
           /\ (trace[1].err.nil /\ ~C16_Repeated) =>
                  store = trace[1].before \cup
                              {[event_id |-> trace[1].event_id,
                                event_type |-> trace[1].event_type]}
    /\ C16_Repeated => store = trace[1].before
C16_Witness ==
    /\ C16_Repeated
    /\ trace[1].err.nil
    /\ \E r \in store : r.event_id = trace[1].event_id
                          /\ r.event_type # trace[1].event_type
    /\ Cardinality(store) = 3

\* C18: ShouldRetry(kind, attempt) is true exactly when kind is transient and
\* attempt < MaxRetries: false for a permanent kind at every attempt, false
\* for every attempt >= MaxRetries, false at attempt 0 when MaxRetries = 0.
C18_ShouldRetryIff ==
    (Len(trace) = 1 /\ trace[1].op = "ShouldRetry") =>
        /\ trace[1].result
               <=> (trace[1].kind = ErrTransient
                      /\ trace[1].attempt < trace[1].MaxRetries)
        /\ trace[1].kind = ErrPermanent => ~trace[1].result
        /\ trace[1].attempt >= trace[1].MaxRetries => ~trace[1].result
        /\ (trace[1].MaxRetries = 0 /\ trace[1].attempt = 0) => ~trace[1].result
C18_Witness ==
    /\ Len(trace) = 1 /\ trace[1].op = "ShouldRetry"
    /\ trace[1].kind = ErrTransient
    /\ trace[1].attempt = 1 /\ trace[1].MaxRetries = 2
    /\ trace[1].result

\* C19: for an error that is a ProcessingError or wraps one somewhere in its
\* chain, Classify returns the kind declared by that ProcessingError (the
\* outermost one when the chain holds several), whatever else the chain and
\* the message text hold.
C19_DeclaredKind(link) ==
    CASE link.type = "pe-permanent" -> ErrPermanent
      [] link.type = "pe-transient" -> ErrTransient
      [] OTHER -> ErrorKind99
C19_ExplicitKindWins ==
    (Len(trace) = 1 /\ trace[1].op = "Classify") =>
        \A i \in 1..Len(trace[1].chain) :
            (/\ IsPE(trace[1].chain[i])
             /\ \A j \in 1..i - 1 : ~IsPE(trace[1].chain[j]))
                => trace[1].kind = C19_DeclaredKind(trace[1].chain[i])
C19_Witness ==
    /\ Len(trace) = 1 /\ trace[1].op = "Classify"
    /\ Len(trace[1].chain) = 2
    /\ trace[1].chain[1] = [type |-> "net", perm |-> FALSE, trans |-> TRUE]
    /\ trace[1].chain[2].type = "pe-permanent"
    /\ trace[1].kind = ErrPermanent

\* C20: Classify applies its rules in order, the first match deciding: the
\* kind of an explicit ProcessingError; else transient for a network-layer
\* fault; else permanent for a permanent substring; else transient for a
\* transient substring.  So a message with both a permanent and a transient
\* substring is permanent, and a network-layer fault whose message holds a
\* permanent substring is transient.
C20_RulesInOrder ==
    (Len(trace) = 1 /\ trace[1].op = "Classify") =>
        LET e == ErrOf(trace[1].chain)
            kind == trace[1].kind
            network == e.net \/ e.eof \/ e.sys
        IN /\ e.pe = "permanent" => kind = ErrPermanent
           /\ e.pe = "transient" => kind = ErrTransient
           /\ (e.pe = "none" /\ network) => kind = ErrTransient
           /\ (e.pe = "none" /\ ~network /\ e.permSub) => kind = ErrPermanent
           /\ (e.pe = "none" /\ ~network /\ ~e.permSub /\ e.transSub)
                  => kind = ErrTransient
C20_Witness ==
    /\ Len(trace) = 1 /\ trace[1].op = "Classify"
    /\ trace[1].chain = <<[type |-> "plain", perm |-> TRUE, trans |-> TRUE]>>
    /\ trace[1].kind = ErrPermanent

\* C21: Classify is total over the closed enumeration: for every non-nil
\* error, every ProcessingError that can be built included, it returns
\* ErrTransient or ErrPermanent and no other kind.
C21_ClassifyTotal ==
    (Len(trace) = 1 /\ trace[1].op = "Classify" /\ Len(trace[1].chain) > 0) =>
        trace[1].kind \in {ErrTransient, ErrPermanent}

\* C22: an error none of the rules matches, and the nil error, are classified
\* transient; so a store failure of unknown kind is retried up to the budget
\* and then sent to the dead-letter log as transient with retries =
\* MaxRetries + 1, and is not dropped: no pass ends on it, and the commit
\* comes only after the Send.
C22_Unknown(e) ==
    ~e.nil /\ e.pe = "none" /\ ~e.net /\ ~e.eof /\ ~e.sys /\ ~e.permSub /\ ~e.transSub
C22_AllUnknown ==
    /\ Len(Inserts) >= 1
    /\ \A i \in 1..Len(Inserts) : C22_Unknown(Inserts[i].err)
C23_SleepCancellable ==
    (Len(trace) = 1 /\ trace[1].op = "Sleep") =>
        /\ trace[1].c < trace[1].d =>
               (trace[1].err /\ trace[1].elapsed = trace[1].c
                             /\ trace[1].elapsed < trace[1].d)
        /\ ~trace[1].err =>
               (trace[1].elapsed = trace[1].d /\ trace[1].c >= trace[1].d)
        /\ (trace[1].c = 0 /\ trace[1].d > 0) =>
               (trace[1].err /\ trace[1].elapsed = 0)
C23_Witness ==
    /\ Len(trace) = 1 /\ trace[1].op = "Sleep"
    /\ trace[1].d = MaxTicks /\ trace[1].c = 0
    /\ trace[1].err /\ trace[1].elapsed = 0

\* C24: for every attempt number and every jitter draw BackoffDelay is at most
\* MaxDelay * (1 + JitterRatio); with JitterRatio = 0 it is at most MaxDelay,
\* however large the attempt number.
C24_Capped(rc, delay) ==
    /\ delay * 100 <= rc.MaxDelay * (100 + rc.JitterRatio)
    /\ rc.JitterRatio = 0 => delay <= rc.MaxDelay
C24_BackoffCapped ==
    (Len(trace) = 1 /\ trace[1].op = "BackoffDelay") =>
        /\ C24_Capped(trace[1].rc, trace[1].di)
        /\ C24_Capped(trace[1].rc, trace[1].dj)
C24_Witness ==
    /\ Len(trace) = 1 /\ trace[1].op = "BackoffDelay"
    /\ trace[1].j = HugeAttempt /\ trace[1].rc.JitterRatio = 0
    /\ trace[1].rc.Multiplier = 3
    /\ trace[1].dj = trace[1].rc.MaxDelay
    /\ trace[1].di < trace[1].dj

\* C25 as stated: with JitterRatio = 0 and Multiplier > 1, BackoffDelay(i) <=
\* BackoffDelay(j) for all i < j, and BackoffDelay(i) < BackoffDelay(j) while
\* BaseDelay * Multiplier^j is still below MaxDelay.
C25_Applies ==
    /\ Len(trace) = 1 /\ trace[1].op = "BackoffDelay"
    /\ trace[1].rc.JitterRatio = 0
    /\ trace[1].rc.Multiplier > 2
\* BaseDelay * Multiplier^j < MaxDelay, both sides times 2^j
C25_BelowCap ==
    /\ trace[1].j # HugeAttempt
    /\ trace[1].rc.BaseDelay * Pow(trace[1].rc.Multiplier, trace[1].j)
           < trace[1].rc.MaxDelay * Pow(2, trace[1].j)
C25_StrictlyMonotone ==
    C25_Applies =>
        /\ trace[1].di <= trace[1].dj
        /\ C25_BelowCap => trace[1].di < trace[1].dj

\* C25 amended: with JitterRatio = 0 and Multiplier > 1, BackoffDelay(i) <=
\* BackoffDelay(j) for all i < j; below the cap BackoffDelay(i) <
\* BackoffDelay(j) holds when BaseDelay * Multiplier^j exceeds BaseDelay *
\* Multiplier^i by at least one tick: the result is truncated to whole ticks,
\* so values less than a tick apart can give the same delay.
C25_TickApart ==
    trace[1].rc.BaseDelay * Pow(trace[1].rc.Multiplier, trace[1].j)
      - trace[1].rc.BaseDelay * Pow(trace[1].rc.Multiplier, trace[1].i)
          * Pow(2, trace[1].j - trace[1].i)
        >= Pow(2, trace[1].j)
C25_MonotoneUpToTruncation ==
    C25_Applies =>
        /\ trace[1].di <= trace[1].dj
        /\ (C25_BelowCap /\ C25_TickApart) => trace[1].di < trace[1].dj
C25_Witness ==
    /\ C25_Applies /\ C25_BelowCap /\ C25_TickApart
    /\ trace[1].rc.Multiplier = 3 /\ trace[1].rc.BaseDelay = 2
    /\ trace[1].i = 0 /\ trace[1].j = 2
    /\ trace[1].di = 2 /\ trace[1].dj = 4

\* C26: serializing an envelope and deserializing the result gives back an
\* envelope equal in every field, original_value byte for byte, whatever the
\* value of the source message: valid JSON in any formatting, or bytes that
\* are no JSON.
C26_RoundTripExact ==
    (Len(trace) = 1 /\ trace[1].op = "RoundTrip") =>
        /\ ~trace[1].err
        /\ trace[1].decoded = trace[1].envelope

\* C27: every envelope Send builds for a record carries that record's topic,
\* partition, offset, key and value in the original_* fields, the error that
\* caused the routing in error_message (the decode error, the missing-fields
\* error, or the error of the last store attempt) and the string of the kind
\* handed to Send in error_kind.
C27_RoutingError ==
    IF DecodeFails THEN UnmarshalErr(msg.Value)
    ELSE IF MissingFields THEN NewPermanent
    ELSE Inserts[Len(Inserts)].err
C27_EnvelopeCarriesContext ==
    \A i \in 1..Len(trace) :
        trace[i].op = "send" =>
            /\ msg.Offset \in 0..Len(log) - 1
            /\ trace[i].envelope.original_topic = Topic
            /\ trace[i].envelope.original_partition = msg.Partition
            /\ trace[i].envelope.original_offset = msg.Offset
            /\ trace[i].envelope.original_key = log[msg.Offset + 1].Key
            /\ trace[i].envelope.original_value = log[msg.Offset + 1].Value
            /\ trace[i].envelope.error_message = C27_RoutingError
            /\ trace[i].envelope.error_kind = String(dlqArgs.kind)
            /\ trace[i].applied =>
                   dlqLog[Len(dlqLog)].Value = trace[i].envelope
C27_Witness ==
    /\ PassDone /\ Len(Sends) = 1 /\ Sends[1].applied
    /\ msg.Value = ValNumericID
    /\ dlqLog[Len(dlqLog)].Value.original_value = ValNumericID
    /\ dlqLog[Len(dlqLog)].Value.error_message = ErrUnmarshal
    /\ dlqLog[Len(dlqLog)].Value.error_kind = "permanent"

\* C28: every message in the dead-letter log has a header dlq-reason that is
\* "transient" or "permanent" and equals the envelope's error_kind, and a
\* header original-topic that is the topic of the source record.
C28_HeadersMatchEnvelope ==
    \A i \in 1..Len(dlqLog) :
        /\ dlqLog[i].Headers.dlq_reason \in {"transient", "permanent"}
        /\ dlqLog[i].Headers.dlq_reason = dlqLog[i].Value.error_kind
        /\ dlqLog[i].Headers.original_topic = Topic
        /\ dlqLog[i].Headers.original_topic = dlqLog[i].Value.original_topic
        /\ dlqLog[i].Value.original_offset \in 0..Len(log) - 1
        /\ dlqLog[i].Key = log[dlqLog[i].Value.original_offset + 1].Key
C28_Witness ==
    /\ Len(dlqLog) = 1
    /\ dlqLog[1].Headers.dlq_reason = "permanent"
    /\ dlqLog[1].Headers.original_topic = "events"
    /\ dlqLog[1].Value.error_message = ErrUnmarshal

\* C29: the worker takes each fetched record to the end of processMessage
\* before it fetches the next, so the offsets it commits never go down: the
\* reader moves only from the fetch, the record in work is the one last
\* fetched, a commit is for that record and no lower than any offset committed
\* before, and the group's committed offset never decreases.
C29_CommitCalled ==
    /\ Len(trace') = Len(trace) + 1
    /\ trace'[Len(trace')].op = "commit"
C29_Step ==
    /\ groupOffset' >= groupOffset
    /\ readPos' >= readPos
    /\ readPos' # readPos => (pc = "fetch" /\ readPos' = readPos + 1)
    /\ C29_CommitCalled =>
           /\ msg.Offset = readPos - 1
           /\ \A o \in committedOffsets : o <= msg.Offset
           /\ groupOffset <= msg.Offset + 1
C29_CommitsMonotone == [][C29_Step]_vars
C29_Witness ==
    /\ PassDone /\ msg.Offset = 1
    /\ committedOffsets = {0, 1}
    /\ groupOffset = 2
    /\ Len(Inserts) = 2

\* C30: the committed offset changes only in a step that calls CommitMessage,
\* and then to the offset after the record in work; the step that fetches a
\* record leaves it alone (the reader is built with CommitInterval 0), so when
\* the worker has stopped every fetched record with no commit at or after it
\* lies at or after the group's committed offset.
C30_CommitApplied ==
    /\ Len(trace') = Len(trace) + 1
    /\ trace'[Len(trace')].op = "commit"
    /\ trace'[Len(trace')].applied
    /\ committedOffsets' = committedOffsets \cup {msg.Offset}
    /\ groupOffset' = msg.Offset + 1
C30_Uncommitted(o) == \A c \in committedOffsets : c < o
C30_Step ==
    /\ (groupOffset' # groupOffset \/ committedOffsets' # committedOffsets)
           => C30_CommitApplied
    /\ readPos' # readPos =>
           (groupOffset' = groupOffset /\ committedOffsets' = committedOffsets)
    /\ pc' = "exited" =>
           \A o \in 0..readPos' - 1 :
               C30_Uncommitted(o)' => groupOffset' <= o
C30_OnlyCommitMessageCommits == [][C30_Step]_vars
C30_Witness ==
    /\ pc = "exited"
    /\ readPos = 2
    /\ msg = NoMsg
    /\ committedOffsets = {0}
    /\ groupOffset = 1
    /\ log[2].Value = ValE2

\* C31: the client holds a 202 for an event only when the publish of that
\* event has been acknowledged.
C31_AcceptedAfterAck ==
    Status(202) =>
        \E i \in 1..Len(trace) : trace[i].op = "Publish" /\ ~trace[i].err

\* C32: the dead-letter log can receive a second envelope for one partition
\* and offset, and it does so only by redelivery: the write that adds it
\* happens in a later run of the process, for a record whose offset the group
\* has not committed.
C32_Duplicate(i, j) ==
    /\ i < j
    /\ dlqLog[i].Value.original_partition = dlqLog[j].Value.original_partition
    /\ dlqLog[i].Value.original_offset = dlqLog[j].Value.original_offset
C32_Step ==
    (/\ Len(dlqLog') = Len(dlqLog) + 1
     /\ \E i \in 1..Len(dlqLog) :
            dlqLog[i].Value.original_offset = msg.Offset)
    => /\ restarts >= 1
       /\ msg.Offset \notin committedOffsets
       /\ groupOffset <= msg.Offset
C32_DuplicateOnlyByRedelivery == [][C32_Step]_vars
C32_Witness ==
    /\ Len(dlqLog) = 2
    /\ C32_Duplicate(1, 2)
    /\ dlqLog[1].Value = dlqLog[2].Value
    /\ restarts = 1
    /\ pc = "commit"
    /\ Len(Sends) = 1 /\ Sends[1].err = "nil"

\* C33: a fetch that fails ends the consume loop exactly when ctx is
\* cancelled, and otherwise leaves the worker at the fetch; either way the
\* step writes nothing to the store or the dead-letter log, commits nothing
\* and calls nothing.
C33_NoEffect ==
    /\ store' = store
    /\ dlqLog' = dlqLog
    /\ committedOffsets' = committedOffsets
    /\ groupOffset' = groupOffset
    /\ readPos' = readPos
    /\ Len(trace') = 0 \/ trace' = trace
C33_Step ==
    /\ (pc # "exited" /\ pc' = "exited") =>
           (pc = "fetch" /\ cancelled /\ cancelled' /\ C33_NoEffect)
    /\ (pc = "fetch" /\ pc' = "fetch") => C33_NoEffect
C33_FailedFetchHasNoEffect == [][C33_Step]_vars
C33_Witness ==
    /\ pc = "exited"
    /\ cancelled
    /\ readPos = 1
    /\ committedOffsets = {0}
    /\ Len(log) > readPos

\* C34: processMessage returns for every record: a worker that has a record
\* in work is back in the consume loop after finitely many steps, whatever
\* the record and whatever fails, provided every call it makes returns.
C34_InWork == pc \notin {"fetch", "exited"}
C34_ProcessingTerminates == C34_InWork ~> PassDone
C34_Witness ==
    /\ PassDone
    /\ retryCfg.MaxRetries = MaxRetriesBound
    /\ Len(Inserts) = MaxRetriesBound + 1
    /\ \A i \in 1..Len(Inserts) : ~Inserts[i].err.nil
    /\ Len(Sends) = 1
    /\ Len(Commits) = 1

\* C35: a request whose body is not valid JSON, or whose event_id is not a
\* UUID, is answered 400 and not published; a publish is started only for a
\* request that is valid JSON with a UUID for event_id.
C35_Invalid ==
    Requested /\ (~ValidJSON(Request) \/ Request.event_id \notin UUIDs)
C35_InvalidRejected ==
    /\ (C35_Invalid /\ pc = "returned") => (Status(400) /\ ~Status(202))
    /\ C35_Invalid => (~Started /\ log = <<>>)
    /\ Started => (ValidJSON(Request) /\ Request.event_id \in UUIDs)

\* C36: a store attempt that fails because ctx was cancelled is classified
\* transient and is followed, in that pass, by no Send and no CommitMessage,
\* whatever the number of the attempt.
C36_CancelledAttemptAbandoned ==
    \A i \in 1..Len(trace) :
        (trace[i].op = "insert" /\ trace[i].err = ErrCtxCanceled) =>
            /\ Classify(trace[i].err) = ErrTransient
            /\ \A j \in i + 1..Len(trace) : trace[j].op \notin {"send", "commit"}

\* C37: once ctx is cancelled no fetch hands a record to processMessage.
C37_Step == (cancelled /\ pc = "fetch") => pc' # "decode"
C37_NoNewRecordAfterCancel == [][C37_Step]_vars

\* C38: Send fails only when the write to the dead-letter log fails: no call
\* of Send returns an error from building or serializing the envelope,
\* whatever the value of the record.
C38_SendFailsOnlyOnWrite ==
    \A i \in 1..Len(trace) :
        trace[i].op = "send" =>
            /\ trace[i].err \in {"nil", "write"}
            /\ ~MarshalFails(trace[i].envelope)

\* C39: in one pass over a record Send is called at most once, and not at
\* all when an insert of that pass returned success.
C39_SendAtMostOnce ==
    /\ Len(Sends) <= 1
    /\ StoreAcked => Len(Sends) = 0
C39_Witness ==
    /\ PassDone
    /\ Len(Sends) = 1
    /\ Len(Inserts) = 2
    /\ Inserts[1].err = ErrConnRefused
    /\ Inserts[2].err = ErrCheckConstraint

====
